---- MODULE Spec2Model ----
(***************************************************************************)
(* Model of collie's pipeline generation coordinator                        *)
(* (collie/module.py: PipelineGenerationMixin) and of the mesh resolution   *)
(* done by PipelineModel.__init__.                                          *)
(*                                                                          *)
(* Every pipeline stage of one replica runs the same program on the same    *)
(* input_ids; the stages meet in engine.eval_batch.  The steps a stage     *)
(* takes between two eval_batch calls touch only its own layers, so the     *)
(* model moves all stages together, one program step at a time.             *)
(***************************************************************************)
EXTENDS Integers, Sequences, FiniteSets, TLC

\* ------------------------------------------------------------------ bounds
NumStages == 2      \* pipeline stages of the replica
MaxLayers == 3      \* layers of the whole model (len(layers))
MaxPrompt == 2      \* longest input_ids a caller passes
MaxCalls == 3       \* forward calls followed since construction
MaxPP == 3          \* largest requested pipeline size
MaxTP == 3          \* largest requested tensor size
MaxDP == 3          \* largest requested data size
MaxWorld == 12      \* largest WORLD_SIZE
MaxCost == 2        \* largest parameter count of one layer spec
MaxMessages == 2    \* longest conversation
MaxContent == 1     \* longest message content

Stages == 1..NumStages

\* The longest past_key_values list a caller passes: one entry too many.
MaxList == MaxLayers + 1

VARIABLES
    layers,                    \* [stage -> forward_funcs of the stage]
    communicate_buffer_shape,  \* [stage -> <<>> (None) or <<batch, seq>>]
    pc,                        \* [stage -> position in generate]
    exit,                      \* [stage -> how generate was left, "none" once
                               \*  forward has been called since]
    input_ids,                 \* the running sequence of the generate call
    model_kwargs,              \* [stage -> past_key_values kept by the loop]
    outputs,                   \* [stage -> what the last forward returned]
    resets,                    \* [stage -> engine.reset_activation_shape calls]
    calls,                     \* forward calls since construction
    last,                      \* the most recent forward call
    mesh,                      \* PipelineModel.__init__ state
    conv                       \* a call into template_utils

vars == <<layers, communicate_buffer_shape, pc, exit, input_ids, model_kwargs,
          outputs, resets, calls, last, mesh, conv>>

genVars == <<layers, communicate_buffer_shape, pc, exit, input_ids, model_kwargs,
             outputs, resets, calls, last>>

\* ------------------------------------------------------------------ values
\* Python None in a layer slot, and a tensor.  What a tensor holds is opaque
\* to the coordinator; it is named by where it comes from: Tensor(0, j) is
\* the j-th entry of a list the caller passed, Tensor(i, 0) what the i-th
\* local layer stored in its last forward pass.
NoneT == [tag |-> "None", a |-> 0, b |-> 0]

Tensor(a, b) == [tag |-> "T", a |-> a, b |-> b]

\* Optional[list]: None, or a list (possibly empty).
NoneList == [isNone |-> TRUE, items |-> <<>>]

SomeList(xs) == [isNone |-> FALSE, items |-> xs]

\* A layer of the stage.  kind "attn" has the attributes past_key_values and
\* use_cache, kind "head" has hidden_states.  A layer with neither attribute
\* is skipped by every loop below exactly as an "attn" layer is skipped by the
\* hidden_states loops and a "head" layer by the past_key_values loops.
Kinds == {"attn", "head"}

NewLayer(kind) ==
    [kind |-> kind, past_key_values |-> NoneT, hidden_states |-> NoneT,
     use_cache |-> TRUE]

\* hasattr(layer, attr_name)
HasAttr(layer, attr_name) ==
    CASE attr_name = "past_key_values" -> layer.kind = "attn"
      [] attr_name = "use_cache" -> layer.kind = "attn"
      [] attr_name = "hidden_states" -> layer.kind = "head"
      [] OTHER -> FALSE

\* getattr(layer, attr_name)
GetAttr(layer, attr_name) ==
    IF attr_name = "past_key_values" THEN layer.past_key_values
    ELSE layer.hidden_states

\* object.__setattr__(layer, attr_name, v)
SetAttr(layer, attr_name, v) ==
    IF attr_name = "past_key_values" THEN [layer EXCEPT !.past_key_values = v]
    ELSE [layer EXCEPT !.hidden_states = v]

\* ------------------------------------------------- cache slots of a stage
\* Variant of Gathered: each slot is put in front of the list (insert(0, ...)
\* for append), so the list comes out in reverse layer order.
GatheredReversed(ls, attr_name) ==
    LET has == SelectSeq(ls, LAMBDA layer :
                   HasAttr(layer, attr_name) /\ GetAttr(layer, attr_name) /= NoneT)
    IN [k \in 1..Len(has) |-> GetAttr(has[Len(has) + 1 - k], attr_name)]

\* The loop of _get_past_key_values / _get_hidden_states: the non-None
\* slots of the layers that have the attribute, in layer order.
RECURSIVE Gathered(_, _)
Gathered(ls, attr_name) ==
    IF ls = <<>> THEN <<>>
    ELSE LET layer == Head(ls)
             rest == Gathered(Tail(ls), attr_name)
         IN IF HasAttr(layer, attr_name) /\ GetAttr(layer, attr_name) /= NoneT
            THEN <<GetAttr(layer, attr_name)>> \o rest
            ELSE rest

\* Variant of AtLeastTwo: a single gathered entry is returned as a list.
AtLeastOne(xs) == IF Len(xs) > 0 THEN SomeList(xs) ELSE NoneList

\* return past_key_values if len(past_key_values) > 1 else None
AtLeastTwo(xs) == IF Len(xs) > 1 THEN SomeList(xs) ELSE NoneList

get_past_key_values(ls) == AtLeastTwo(Gathered(ls, "past_key_values"))

get_hidden_states(ls) == AtLeastTwo(Gathered(ls, "hidden_states"))

\* _clean_past_key_values / _clean_hidden_states
CleanAttr(ls, attr_name) ==
    [i \in 1..Len(ls) |->
        IF HasAttr(ls[i], attr_name) THEN SetAttr(ls[i], attr_name, NoneT)
        ELSE ls[i]]

clean_past_key_values(ls) == CleanAttr(ls, "past_key_values")

\* Variant of clean_hidden_states: the hidden states are left in place.
KeepHiddenStates(ls) == ls

clean_hidden_states(ls) == CleanAttr(ls, "hidden_states")

\* The loop of _set_past_key_values / _set_hidden_states from layer i on,
\* `items` being what the iterator has left.  next() on an exhausted
\* iterator raises StopIteration and leaves the earlier assignments in place;
\* entries left over when the layers run out are dropped silently.
\* Variant of SetLoop: every layer is given the first entry (the iterator is
\* made anew for each layer).
SetLoopFirst(ls, items, i, attr_name) ==
    IF items = <<>>
    THEN [layers |-> ls,
          raised |-> \E j \in 1..Len(ls) : HasAttr(ls[j], attr_name)]
    ELSE [layers |-> [j \in 1..Len(ls) |->
                         IF HasAttr(ls[j], attr_name)
                         THEN SetAttr(ls[j], attr_name, Head(items))
                         ELSE ls[j]],
          raised |-> FALSE]

RECURSIVE SetLoop(_, _, _, _)
SetLoop(ls, items, i, attr_name) ==
    IF i > Len(ls) THEN [layers |-> ls, raised |-> FALSE]
    ELSE IF HasAttr(ls[i], attr_name)
         THEN IF items = <<>> THEN [layers |-> ls, raised |-> TRUE]
              ELSE SetLoop([ls EXCEPT ![i] = SetAttr(@, attr_name, Head(items))],
                           Tail(items), i + 1, attr_name)
         ELSE SetLoop(ls, items, i + 1, attr_name)

set_past_key_values(ls, past_key_values) ==
    SetLoop(ls, past_key_values, 1, "past_key_values")

set_hidden_states(ls, hidden_states) ==
    SetLoop(ls, hidden_states, 1, "hidden_states")

\* _set_use_cache
set_use_cache(ls, uc) ==
    [i \in 1..Len(ls) |->
        IF HasAttr(ls[i], "use_cache") THEN [ls[i] EXCEPT !.use_cache = uc]
        ELSE ls[i]]

\* prepare_inputs_for_generation, on the layers of one stage
prepare_inputs_for_generation(ls, past_key_values, uc) ==
    LET ls1 == set_use_cache(ls, uc)
    IN IF past_key_values.isNone
       THEN [layers |-> clean_past_key_values(ls1), raised |-> FALSE]
       ELSE set_past_key_values(ls1, past_key_values.items)

\* -------------------------------------------------------------- forward
BatchSize == 1

\* batch[0].shape
Shape(ids) == <<BatchSize, Len(ids)>>

\* Variant of LastColumn: input_ids[:, :1]
FirstColumn(ids) == SubSeq(ids, 1, 1)

\* input_ids[:, -1:]
LastColumn(ids) == SubSeq(ids, Len(ids), Len(ids))

\* The tensor forward hands to the engine (lines 217-220)
Forwarded(ls, ids) ==
    IF ~get_past_key_values(ls).isNone THEN LastColumn(ids) ELSE ids

\* Variant of NeedsReset: the stored shape is not tested for None.
ResetUnlessEqual(shape, ids) == shape /= Shape(ids)

\* Whether forward calls engine.reset_activation_shape (lines 221-227)
NeedsReset(shape, ids) == shape /= <<>> /\ shape /= Shape(ids)

\* Variant of NextShape: the shape is stored on the first call only.
KeepFirstShape(shape, ids) ==
    IF shape = <<>> THEN Shape(ids) ELSE shape

\* communicate_buffer_shape after lines 221-227
NextShape(shape, ids) ==
    IF shape = <<>> THEN Shape(ids)
    ELSE IF shape /= Shape(ids) THEN Shape(ids) ELSE shape

\* LinearWithHiddenStates.forward / ColumnParallelLMHead.forward on the
\* i-th local layer: hidden_states keeps the input outside training
LMHeadForward(layer, i, training) ==
    IF ~training THEN [layer EXCEPT !.hidden_states = Tensor(i, 0)]
    ELSE [layer EXCEPT !.hidden_states = NoneT]

\* A decoder layer keeps its key/value cache when use_cache is set.
AttnForward(layer, i) ==
    IF layer.use_cache THEN [layer EXCEPT !.past_key_values = Tensor(i, 0)]
    ELSE layer

\* engine.eval_batch in evaluation mode: the first k local layers have run
\* (k = Len(ls) when the batch completes).
EvalBatch(ls, k) ==
    [i \in 1..Len(ls) |->
        IF i > k THEN ls[i]
        ELSE IF ls[i].kind = "head" THEN LMHeadForward(ls[i], i, FALSE)
        ELSE IF ls[i].kind = "attn" THEN AttnForward(ls[i], i)
        ELSE ls[i]]

\* CausalLMOutputWithPast(...) of lines 229-235
Output(ls) ==
    [returned |-> TRUE,
     past_key_values |-> get_past_key_values(ls),
     hidden_states |-> get_hidden_states(ls)]

\* No forward result is at hand (none yet, or the call raised).
NoOutput ==
    [returned |-> FALSE, past_key_values |-> NoneList, hidden_states |-> NoneList]

\* How eval_batch ends: it returns, it raises before a layer has run, or it
\* raises after the local layers have run.
Endings == {"ok", "early", "late"}

\* What is kept of a forward call: its input_ids and, per stage, the number
\* of non-None past_key_values slots it found, the tensor it handed to the
\* engine and whether it reset the engine's activation shape.
NoCall ==
    [input |-> <<>>, fwd |-> [s \in Stages |-> <<>>],
     cached |-> [s \in Stages |-> 0], reset |-> [s \in Stages |-> FALSE]]

\* One forward call on every stage.
ForwardAll(ids, ending) ==
    LET fwd == [s \in Stages |-> Forwarded(layers[s], ids)]
        ran == [s \in Stages |->
                   EvalBatch(layers[s],
                             IF ending = "early" THEN 0 ELSE Len(layers[s]))]
        fail == ending /= "ok"
    IN /\ calls < MaxCalls
       /\ calls' = calls + 1
       /\ communicate_buffer_shape' =
             [s \in Stages |-> NextShape(communicate_buffer_shape[s], fwd[s])]
       /\ resets' = [s \in Stages |->
             IF NeedsReset(communicate_buffer_shape[s], fwd[s])
             THEN resets[s] + 1 ELSE resets[s]]
       /\ layers' = ran
       /\ outputs' = [s \in Stages |-> IF fail THEN NoOutput ELSE Output(ran[s])]
       /\ last' = [input |-> ids,
                   fwd |-> fwd,
                   cached |-> [s \in Stages |->
                                  Len(Gathered(layers[s], "past_key_values"))],
                   reset |-> [s \in Stages |->
                                 NeedsReset(communicate_buffer_shape[s], fwd[s])]]

\* ------------------------------------------------------ construction
\* Partition boundaries of n >= NumStages layers over the stages:
\* parts[0] = 0, parts[NumStages] = n, every stage holding a layer.
Boundaries(n) ==
    {p \in [0..NumStages -> 0..n] :
        /\ p[0] = 0
        /\ p[NumStages] = n
        /\ \A s \in Stages : p[s - 1] < p[s]}

\* The layers a stage builds: its slice of the layer specs, slots empty.
LocalLayers(specs, parts, s) ==
    [i \in 1..(parts[s] - parts[s - 1]) |-> NewLayer(specs[parts[s - 1] + i])]

LayerSpecs == UNION {[1..n -> Kinds] : n \in NumStages..MaxLayers}

\* No call into template_utils is under way.
ConvIdle ==
    [pc |-> "idle", conversation |-> <<>>, tokenizer |-> "none",
     prepare_template_fn |-> "None", add_generation_prompt |-> FALSE,
     prepared_messages |-> <<>>, input_ids |-> <<>>, labels |-> <<>>,
     attention_mask |-> <<>>]

MeshIdle ==
    [pc |-> "idle", pp_size |-> 1, dp_size |-> 1, tp_size |-> 1,
     world_size |-> 1, warned |-> FALSE]

\* PipelineGenerationMixin.__init__ on every stage
GenInit ==
    /\ \E specs \in LayerSpecs : \E parts \in Boundaries(Len(specs)) :
          layers = [s \in Stages |-> LocalLayers(specs, parts, s)]
    /\ communicate_buffer_shape = [s \in Stages |-> <<>>]
    /\ pc = [s \in Stages |-> "idle"]
    /\ exit = [s \in Stages |-> "none"]
    /\ input_ids = <<>>
    /\ model_kwargs = [s \in Stages |-> NoneList]
    /\ outputs = [s \in Stages |-> NoOutput]
    /\ resets = [s \in Stages |-> 0]
    /\ calls = 0
    /\ last = NoCall

Init == GenInit /\ mesh = MeshIdle /\ conv = ConvIdle

\* ------------------------------------------------------------- actions
\* input_ids of n columns; a column is named by its position, which is all
\* the coordinator looks at.
Ids(n) == [j \in 1..n |-> j]

Prompts == {Ids(n) : n \in 1..MaxPrompt}

\* self.generation_config = GenerationConfig() (line 201): use_cache is True
generation_config_use_cache == TRUE

\* The list a caller passes as past_key_values: n distinct tensors.
CallerList(n) == [i \in 1..n |-> Tensor(0, i)]

CallerCaches == {NoneList} \cup {SomeList(CallerList(n)) : n \in 0..MaxList}

AllAt(where) == \A s \in Stages : pc[s] = where

\* generate(input_ids, past_key_values=...) is entered.
GenerateCall(prompt, past_key_values) ==
    /\ AllAt("idle")
    /\ calls < MaxCalls
    /\ input_ids' = prompt
    /\ model_kwargs' = [s \in Stages |-> past_key_values]
    /\ pc' = [s \in Stages |-> "prepare"]
    /\ exit' = [s \in Stages |-> "running"]
    /\ outputs' = [s \in Stages |-> NoOutput]
    /\ UNCHANGED <<layers, communicate_buffer_shape, resets, calls, last, mesh, conv>>

\* The loop of GenerationMixin.generate calls prepare_inputs_for_generation,
\* on entry ("prepare") and before every further decode step ("next_step").
\* An exception leaves generate at once: lines 212-213 are not run.  The
\* loop does not read model_kwargs' past_key_values again before GenUpdate
\* overwrites it, so it is dropped here.
GenPrepare ==
    /\ AllAt("prepare") \/ AllAt("next_step")
    /\ LET r == [s \in Stages |->
                    prepare_inputs_for_generation(layers[s], model_kwargs[s],
                                                  generation_config_use_cache)]
       IN /\ layers' = [s \in Stages |-> r[s].layers]
          /\ pc' = [s \in Stages |-> IF r[s].raised THEN "idle" ELSE "forward"]
          /\ exit' = [s \in Stages |-> IF r[s].raised THEN "rejected" ELSE exit[s]]
          /\ model_kwargs' = [s \in Stages |-> NoneList]
          /\ input_ids' = IF \A s \in Stages : r[s].raised THEN <<>> ELSE input_ids
    /\ UNCHANGED <<communicate_buffer_shape, outputs, resets, calls, last, mesh, conv>>

\* The loop calls forward; every stage must be there for eval_batch.  An
\* exception leaves generate at once: lines 212-213 are not run.
GenForward(ending) ==
    /\ AllAt("forward")
    /\ ForwardAll(input_ids, ending)
    /\ pc' = [s \in Stages |-> IF ending /= "ok" THEN "idle" ELSE "update"]
    /\ exit' = [s \in Stages |-> IF ending /= "ok" THEN "failed" ELSE exit[s]]
    /\ input_ids' = IF ending /= "ok" THEN <<>> ELSE input_ids
    /\ UNCHANGED <<model_kwargs, mesh, conv>>

\* The loop appends the sampled token, keeps outputs.past_key_values for the
\* next step and asks its stopping criteria whether to go on.
GenUpdate(stop) ==
    /\ AllAt("update")
    /\ input_ids' = Ids(Len(input_ids) + 1)
    /\ model_kwargs' = [s \in Stages |-> outputs[s].past_key_values]
    /\ outputs' = [s \in Stages |-> NoOutput]
    /\ pc' = [s \in Stages |-> IF stop THEN "finish" ELSE "next_step"]
    /\ UNCHANGED <<layers, communicate_buffer_shape, exit, resets, calls, last,
                   mesh, conv>>

\* super().generate has returned: lines 212-214.
GenReturn ==
    /\ AllAt("finish")
    /\ layers' = [s \in Stages |->
                     clean_hidden_states(clean_past_key_values(layers[s]))]
    /\ pc' = [s \in Stages |-> "idle"]
    /\ exit' = [s \in Stages |-> "returned"]
    /\ model_kwargs' = [s \in Stages |-> NoneList]
    /\ input_ids' = <<>>
    /\ UNCHANGED <<communicate_buffer_shape, outputs, resets, calls, last, mesh, conv>>

\* forward(input_ids) called directly, outside generate.
ForwardCall(ids, ending) ==
    /\ AllAt("idle")
    /\ ForwardAll(ids, ending)
    /\ exit' = [s \in Stages |-> "none"]
    /\ UNCHANGED <<pc, input_ids, model_kwargs, mesh, conv>>

Next ==
    \/ \E prompt \in Prompts, c \in CallerCaches : GenerateCall(prompt, c)
    \/ GenPrepare
    \/ \E ending \in Endings : GenForward(ending)
    \/ \E stop \in BOOLEAN : GenUpdate(stop)
    \/ GenReturn
    \/ \E ids \in Prompts, ending \in Endings : ForwardCall(ids, ending)

Spec == Init /\ [][Next]_vars

\* ------------------------------------- the cache helpers called directly
\* The lists a caller hands to a set helper: n distinct tensors, in one
\* order or the other.
CallerLists ==
    {CallerList(n) : n \in 0..MaxList}
        \cup {[i \in 1..n |-> Tensor(0, n + 1 - i)] : n \in 2..MaxList}

\* _set_past_key_values(items) on every stage; pc names the helper that ran
\* last, model_kwargs the list it was given, exit whether it raised.
SetPastKeyValuesCall(items) ==
    /\ LET r == [s \in Stages |-> set_past_key_values(layers[s], items)]
       IN /\ layers' = [s \in Stages |-> r[s].layers]
          /\ exit' = [s \in Stages |-> IF r[s].raised THEN "rejected" ELSE "none"]
    /\ pc' = [s \in Stages |-> "set_past_key_values"]
    /\ model_kwargs' = [s \in Stages |-> SomeList(items)]
    /\ outputs' = [s \in Stages |-> NoOutput]
    /\ UNCHANGED <<communicate_buffer_shape, input_ids, resets, calls, last, mesh, conv>>

\* _set_hidden_states(items) on every stage
SetHiddenStatesCall(items) ==
    /\ LET r == [s \in Stages |-> set_hidden_states(layers[s], items)]
       IN /\ layers' = [s \in Stages |-> r[s].layers]
          /\ exit' = [s \in Stages |-> IF r[s].raised THEN "rejected" ELSE "none"]
    /\ pc' = [s \in Stages |-> "set_hidden_states"]
    /\ model_kwargs' = [s \in Stages |-> SomeList(items)]
    /\ outputs' = [s \in Stages |-> NoOutput]
    /\ UNCHANGED <<communicate_buffer_shape, input_ids, resets, calls, last, mesh, conv>>

\* _get_past_key_values() and _get_hidden_states() on every stage; outputs
\* holds what they returned.
GatherCall ==
    /\ outputs' = [s \in Stages |-> Output(layers[s])]
    /\ pc' = [s \in Stages |-> "gathered"]
    /\ UNCHANGED <<layers, communicate_buffer_shape, exit, input_ids,
                   model_kwargs, resets, calls, last, mesh, conv>>

CacheNext ==
    \/ \E items \in CallerLists : SetPastKeyValuesCall(items)
    \/ \E items \in CallerLists : SetHiddenStatesCall(items)
    \/ GatherCall

CacheSpec == Init /\ [][CacheNext]_vars

\* ------------------------------------------- PipelineModel.__init__: mesh
\* Variant of ResolveDataSize: the tensor size is left out of the divisor.
ResolveWithoutTensor(pp_size, dp_size, tp_size, world_size) ==
    IF world_size /= pp_size * dp_size * tp_size
    THEN world_size \div pp_size
    ELSE dp_size

\* Variant of ResolveDataSize: the quotient is rounded up.
ResolveRoundedUp(pp_size, dp_size, tp_size, world_size) ==
    IF world_size /= pp_size * dp_size * tp_size
    THEN (world_size + tp_size * pp_size - 1) \div (tp_size * pp_size)
    ELSE dp_size

\* dp_size after lines 152-157
ResolveDataSize(pp_size, dp_size, tp_size, world_size) ==
    IF world_size /= pp_size * dp_size * tp_size
    THEN world_size \div (tp_size * pp_size)
    ELSE dp_size

\* The coordinator is not looked at while the model is constructed.
GenIdle ==
    /\ layers = [s \in Stages |-> <<NewLayer("attn")>>]
    /\ communicate_buffer_shape = [s \in Stages |-> <<>>]
    /\ pc = [s \in Stages |-> "idle"]
    /\ exit = [s \in Stages |-> "none"]
    /\ input_ids = <<>>
    /\ model_kwargs = [s \in Stages |-> NoneList]
    /\ outputs = [s \in Stages |-> NoOutput]
    /\ resets = [s \in Stages |-> 0]
    /\ calls = 0
    /\ last = NoCall

\* The global ranks of a world
Ranks(world_size) == 0..(world_size - 1)

\* What one construction holds before line 152: the dims of the topology it
\* was given (line 152 unpacks them), WORLD_SIZE, and nothing built yet.
\* The fields indexed by rank hold what each process of the world computes;
\* the processes run the same constructor on the same arguments.
Request(pp, dp, tp, ws) ==
    [pc |-> "requested", dims |-> <<pp, dp, tp>>,
     pp_size |-> pp, dp_size |-> dp, tp_size |-> tp,
     world_size |-> ws, warned |-> FALSE, error |-> "none",
     num_stages |-> 0, grid |-> <<>>, stage_id |-> <<>>,
     layer_specs |-> <<>>, num_layers |-> 0, parts |-> <<>>, local |-> <<>>,
     environ |-> <<>>]

MeshInit ==
    /\ GenIdle
    /\ conv = ConvIdle
    /\ mesh \in {Request(pp, dp, tp, ws) :
                    pp \in 1..MaxPP, dp \in 1..MaxDP, tp \in 1..MaxTP,
                    ws \in 1..MaxWorld}

\* Lines 152-162: topology.dims against WORLD_SIZE
ResolveMesh ==
    /\ mesh.pc = "requested"
    /\ mesh' = [mesh EXCEPT
          !.dp_size = ResolveDataSize(mesh.pp_size, mesh.dp_size, mesh.tp_size,
                                      mesh.world_size),
          !.warned = (mesh.world_size /= mesh.pp_size * mesh.dp_size * mesh.tp_size),
          !.pc = "resolved"]
    /\ UNCHANGED <<genVars, conv>>

\* ProcessTopology(axes pipe, data, model).get_coord: ranks are laid out
\* with the pipe axis outermost and the model axis innermost; a rank the
\* topology does not hold has no coordinate.
get_coord(rank, pp_size, dp_size, tp_size) ==
    IF rank < pp_size * dp_size * tp_size
    THEN [pipe |-> rank \div (dp_size * tp_size),
          data |-> (rank \div tp_size) % dp_size,
          model |-> rank % tp_size]
    ELSE [pipe |-> -1, data |-> -1, model |-> -1]

\* PipelineParallelGrid._is_grid_valid: the dims of the topology multiply
\* to the world size.
is_grid_valid(pp_size, dp_size, tp_size, world_size) ==
    pp_size * dp_size * tp_size = world_size

Max(a, b) == IF a >= b THEN a ELSE b

\* Variant of MultiParallelGrid: the grid is built without line 310.
GridWithoutAssert(m) ==
    [m EXCEPT
        !.pc = "grid",
        !.grid = [r \in Ranks(m.world_size) |->
                     [data_parallel_size |-> Max(m.dp_size, 1),
                      pipe_parallel_size |-> Max(m.pp_size, 1),
                      model_parallel_size |-> Max(m.tp_size, 1),
                      stage_id |->
                          get_coord(r, m.pp_size, m.dp_size, m.tp_size).pipe,
                      data_parallel_id |->
                          get_coord(r, m.pp_size, m.dp_size, m.tp_size).data]]]

\* MultiParallelGrid.__init__ (lines 301-313) on every rank: the sizes, the
\* assertion, then the rank's own stage and replica index.
MultiParallelGrid(m) ==
    IF ~is_grid_valid(m.pp_size, m.dp_size, m.tp_size, m.world_size)
    THEN [m EXCEPT !.pc = "failed", !.error = "Invalid Grid"]
    ELSE [m EXCEPT
             !.pc = "grid",
             !.grid = [r \in Ranks(m.world_size) |->
                          [data_parallel_size |-> Max(m.dp_size, 1),
                           pipe_parallel_size |-> Max(m.pp_size, 1),
                           model_parallel_size |-> Max(m.tp_size, 1),
                           stage_id |->
                               get_coord(r, m.pp_size, m.dp_size, m.tp_size).pipe,
                           data_parallel_id |->
                               get_coord(r, m.pp_size, m.dp_size, m.tp_size).data]]]

\* Lines 163-169: num_stages, the grid, and each rank's stage_id
BuildGrid ==
    /\ mesh.pc = "resolved"
    /\ LET m == MultiParallelGrid([mesh EXCEPT !.num_stages = mesh.pp_size])
       IN mesh' = IF m.pc = "failed"
                  THEN m
                  ELSE [m EXCEPT !.stage_id =
                           [r \in Ranks(m.world_size) |->
                               get_coord(r, m.pp_size, m.dp_size, m.tp_size).pipe]]
    /\ UNCHANGED <<genVars, conv>>

\* ------------------------------------------------- layer partitioner
\* Boundaries 0 = p[0] <= ... <= p[k] = n of n layers over k stages.
Cuts ==
    [n \in 0..MaxLayers, k \in 1..MaxPP |->
        {p \in [0..k -> 0..n] :
            /\ p[0] = 0
            /\ p[k] = n
            /\ \A s \in 1..k : p[s - 1] <= p[s]}]

\* Cost of the layers lo+1 .. hi
RECURSIVE RangeCost(_, _, _)
RangeCost(weights, lo, hi) ==
    IF hi <= lo THEN 0 ELSE weights[hi] + RangeCost(weights, lo, hi - 1)

\* The largest cost any stage carries under boundaries p
MaxStageCost(weights, p, k) ==
    CHOOSE c \in {RangeCost(weights, p[s - 1], p[s]) : s \in 1..k} :
        \A s \in 1..k : RangeCost(weights, p[s - 1], p[s]) <= c

Min(a, b) == IF a <= b THEN a ELSE b

\* partition_uniform: an even split, the remainder going to the first stages.
partition_uniform(num_items, num_parts) ==
    LET chunksize == num_items \div num_parts
        residual == num_items - chunksize * num_parts
    IN [p \in 0..num_parts |-> chunksize * p + Min(p, residual)]

\* partition_balanced: a contiguous split with the least maximal stage cost.
partition_balanced(weights, num_parts) ==
    CHOOSE p \in Cuts[Len(weights), num_parts] :
        \A q \in Cuts[Len(weights), num_parts] :
            MaxStageCost(weights, p, num_parts)
                <= MaxStageCost(weights, q, num_parts)

Methods == {"uniform", "parameters"}

\* Variant of partition_layers: with fewer layers than stages the trailing
\* stages are left empty.
partition_lenient(weights, num_layers, num_stages, method) ==
    IF num_layers < num_stages
    THEN [p \in 0..num_stages |-> Min(p, Max(num_layers, 0))]
    ELSE IF method = "uniform"
         THEN partition_uniform(num_layers, num_stages)
         ELSE partition_balanced(SubSeq(weights, 1, num_layers), num_stages)

\* PipelineModule._partition_layers: <<>> when it fails (fewer layers than
\* stages), the boundaries otherwise.
partition_layers(weights, num_layers, num_stages, method) ==
    IF num_layers < num_stages
    THEN <<>>
    ELSE IF method = "uniform"
         THEN partition_uniform(num_layers, num_stages)
         ELSE partition_balanced(SubSeq(weights, 1, num_layers), num_stages)

\* Variant of Partitioned: one layer spec is not counted.
PartitionedShort(m, weights, method) ==
    LET n == Len(weights) - 1
        parts == partition_layers(weights, n, m.num_stages, method)
    IN IF parts = <<>>
       THEN [m EXCEPT !.pc = "failed", !.error = "partition",
                      !.layer_specs = weights, !.num_layers = n]
       ELSE [m EXCEPT
                !.pc = "built",
                !.layer_specs = weights,
                !.num_layers = n,
                !.parts = parts,
                !.local = [r \in Ranks(m.world_size) |->
                              [start |-> parts[m.stage_id[r]],
                               stop |-> parts[m.stage_id[r] + 1]]]]

\* Lines 171-183: the layer specs (here their parameter counts) are counted, the partitioner sets parts
\* and the local bounds, and _build makes the layers inside the bounds.
Partitioned(m, weights, method) ==
    LET n == Len(weights)
        parts == partition_layers(weights, n, m.num_stages, method)
    IN IF parts = <<>>
       THEN [m EXCEPT !.pc = "failed", !.error = "partition",
                      !.layer_specs = weights, !.num_layers = n]
       ELSE [m EXCEPT
                !.pc = "built",
                !.layer_specs = weights,
                !.num_layers = n,
                !.parts = parts,
                !.local = [r \in Ranks(m.world_size) |->
                              [start |-> parts[m.stage_id[r]],
                               stop |-> parts[m.stage_id[r] + 1]]]]

\* The parameter counts of the layer specs a constructor may be given
LayerWeights == UNION {[1..n -> 1..MaxCost] : n \in 0..MaxLayers}

PartitionLayers(weights, method) ==
    /\ mesh.pc = "grid"
    /\ mesh' = Partitioned(mesh, weights, method)
    /\ UNCHANGED <<genVars, conv>>

\* ------------------------------------------------ published key/values
DigitChars == <<"0", "1", "2", "3", "4", "5", "6", "7", "8", "9">>

\* str of a natural number: its decimal digits
RECURSIVE Str(_)
Str(n) ==
    IF n < 10
    THEN <<DigitChars[n + 1]>>
    ELSE Str(n \div 10) \o <<DigitChars[(n % 10) + 1]>>

\* The items of a list of numbers as json.dumps writes them, from item i on
RECURSIVE JsonItems(_, _, _)
JsonItems(parts, i, k) ==
    IF i > k THEN <<>>
    ELSE Str(parts[i]) \o (IF i < k THEN <<",", " ">> ELSE <<>>)
             \o JsonItems(parts, i + 1, k)

\* json.dumps(self.parts)
JsonDumps(parts, k) == <<"[">> \o JsonItems(parts, 0, k) \o <<"]">>

\* Variant of Environ: the replica index is taken from the stage index.
EnvironStageTwice(m, r) ==
    [COLLIE_PP_PARTS |-> JsonDumps(m.parts, m.num_stages),
     COLLIE_PP_RANK |-> Str(m.stage_id[r]),
     COLLIE_DP_RANK |-> Str(m.grid[r].stage_id)]

\* Lines 192-194: what rank r writes to os.environ
Environ(m, r) ==
    [COLLIE_PP_PARTS |-> JsonDumps(m.parts, m.num_stages),
     COLLIE_PP_RANK |-> Str(m.stage_id[r]),
     COLLIE_DP_RANK |-> Str(m.grid[r].data_parallel_id)]

Publish ==
    /\ mesh.pc = "built"
    /\ mesh' = [mesh EXCEPT
          !.pc = "published",
          !.environ = [r \in Ranks(mesh.world_size) |-> Environ(mesh, r)]]
    /\ UNCHANGED <<genVars, conv>>

MeshNext ==
    \/ ResolveMesh
    \/ BuildGrid
    \/ \E weights \in LayerWeights : \E method \in Methods :
          PartitionLayers(weights, method)
    \/ Publish

MeshSpec == MeshInit /\ [][MeshNext]_vars

\* ------------------------------------------------- data/template_utils.py
\* A string is the sequence of its pieces: a special token, a role name, a
\* line feed or a letter of a message's content.
Roles == {"user", "assistant", "system"}

Contents == UNION {[1..n -> {"a"}] : n \in 0..MaxContent}

Messages == [role : Roles, content : Contents]

\* The conversations a caller passes: messages under the text field
Conversations ==
    {[history |-> ms] : ms \in UNION {[1..n -> Messages] : n \in 0..MaxMessages}}

\* tokenizer.special_tokens_map
special_tokens_map == [bos_token |-> <<"<s>">>]

Segment(content, require_loss) ==
    [content |-> content, require_loss |-> require_loss]

\* Variant of ChatmlSegments: an assistant turn is one segment with loss.
ChatmlWholeTurn(message) ==
    IF message.role = "assistant"
    THEN <<Segment(<<"<|im_start|>", "assistant", "\n">> \o message.content
                       \o <<"<|im_end|>", "\n">>, TRUE)>>
    ELSE <<Segment(<<"<|im_start|>", message.role, "\n">> \o message.content
                       \o <<"<|im_end|>", "\n">>, FALSE)>>

\* Lines 28-35: what one message adds to prepared_messages
ChatmlSegments(message) ==
    IF message.role = "assistant"
    THEN <<Segment(<<"<|im_start|>", "assistant", "\n">>, FALSE),
           Segment(message.content \o <<"<|im_end|>">>, TRUE),
           Segment(<<"\n">>, FALSE)>>
    ELSE <<Segment(<<"<|im_start|>", message.role, "\n">> \o message.content
                       \o <<"<|im_end|>", "\n">>, FALSE)>>

\* The loop of lines 27-35
RECURSIVE ChatmlLoop(_)
ChatmlLoop(ms) ==
    IF ms = <<>> THEN <<>>
    ELSE ChatmlSegments(Head(ms)) \o ChatmlLoop(Tail(ms))

prepare_chatml_messages(messages, tokens_map, text_field, add_generation_prompt) ==
    <<Segment(tokens_map.bos_token, FALSE)>>
        \o ChatmlLoop(messages[text_field])
        \o (IF add_generation_prompt
            THEN <<Segment(<<"<|im_start|>", "assistant", "\n">>, FALSE)>>
            ELSE <<>>)

\* type(tokenizer).__name__ of the tokenizers a caller passes
TokenizerTypes == {"Qwen2Tokenizer", "Qwen2TokenizerFast", "LlamaTokenizer"}

\* The keys of TOKENIZER_PREPARE_TEMPLATE_FN_MAPPING; both map to
\* prepare_chatml_messages.
TOKENIZER_PREPARE_TEMPLATE_FN_MAPPING == {"Qwen2Tokenizer", "Qwen2TokenizerFast"}

\* prepare_template_fn as passed: None or prepare_chatml_messages
TemplateFns == {"None", "prepare_chatml_messages"}

\* The tokenizer's vocabulary; the id of a piece is its place in it.
Vocab ==
    <<"<s>", "<|im_start|>", "<|im_end|>", "\n", "user", "assistant", "system",
      "a">>

\* tokenizer(content, add_special_tokens=False): one id for each piece and
\* an attention mask of the same length
Tokenize(content) ==
    [input_ids |-> [i \in 1..Len(content) |->
                       CHOOSE t \in 1..Len(Vocab) : Vocab[t] = content[i]],
     attention_mask |-> [i \in 1..Len(content) |-> 1]]

\* Variant of Label: the ids are the label whatever require_loss says.
LabelAlways(output, require_loss) == output.input_ids

\* Lines 134-137: the label of one segment
Label(output, require_loss) ==
    IF require_loss THEN output.input_ids
    ELSE [i \in 1..Len(output.input_ids) |-> -100]

\* The loop of lines 132-140
RECURSIVE TokenizeLoop(_, _)
TokenizeLoop(prepared, acc) ==
    IF prepared = <<>> THEN acc
    ELSE LET m == Head(prepared)
             output == Tokenize(m.content)
         IN TokenizeLoop(Tail(prepared),
                [input_ids |-> acc.input_ids \o output.input_ids,
                 labels |-> acc.labels \o Label(output, m.require_loss),
                 attention_mask |-> acc.attention_mask \o output.attention_mask])

\* tokenize_conversation: raised, or the prepared messages and the triple
tokenize_conversation(conversation, tokenizer, text_field, prepare_template_fn, add_generation_prompt) ==
    IF /\ prepare_template_fn = "None"
       /\ tokenizer \notin TOKENIZER_PREPARE_TEMPLATE_FN_MAPPING
    THEN [raised |-> TRUE, prepared_messages |-> <<>>, input_ids |-> <<>>,
          labels |-> <<>>, attention_mask |-> <<>>]
    ELSE LET prepared == prepare_chatml_messages(conversation, special_tokens_map,
                             text_field, add_generation_prompt)
             res == TokenizeLoop(prepared,
                        [input_ids |-> <<>>, labels |-> <<>>,
                         attention_mask |-> <<>>])
         IN [raised |-> FALSE, prepared_messages |-> prepared,
             input_ids |-> res.input_ids, labels |-> res.labels,
             attention_mask |-> res.attention_mask]

\* The arguments of a call into template_utils
ConvInput(conversation, tokenizer, prepare_template_fn, add_generation_prompt) ==
    [ConvIdle EXCEPT
        !.pc = "input", !.conversation = conversation, !.tokenizer = tokenizer,
        !.prepare_template_fn = prepare_template_fn,
        !.add_generation_prompt = add_generation_prompt]

TemplateInit ==
    /\ GenIdle
    /\ mesh = MeshIdle
    /\ conv \in {ConvInput(c, t, f, g) :
                    c \in Conversations, t \in TokenizerTypes,
                    f \in TemplateFns, g \in BOOLEAN}

\* prepare_chatml_messages(conversation, special_tokens_map, 'history', g)
PrepareChatmlCall ==
    /\ conv.pc = "input"
    /\ conv' = [conv EXCEPT
          !.pc = "prepared",
          !.prepared_messages =
              prepare_chatml_messages(conv.conversation, special_tokens_map,
                                      "history", conv.add_generation_prompt)]
    /\ UNCHANGED <<genVars, mesh>>

\* tokenize_conversation(conversation, tokenizer, 'history', fn, g)
TokenizeConversationCall ==
    /\ conv.pc = "input"
    /\ LET r == tokenize_conversation(conv.conversation, conv.tokenizer,
                    "history", conv.prepare_template_fn,
                    conv.add_generation_prompt)
       IN conv' = [conv EXCEPT
             !.pc = IF r.raised THEN "raised" ELSE "tokenized",
             !.prepared_messages = r.prepared_messages,
             !.input_ids = r.input_ids,
             !.labels = r.labels,
             !.attention_mask = r.attention_mask]
    /\ UNCHANGED <<genVars, mesh>>

TemplateNext ==
    \/ PrepareChatmlCall
    \/ TokenizeConversationCall

TemplateSpec == TemplateInit /\ [][TemplateNext]_vars

\* ================================================================ claims
\* The slots of a stage that exist all hold None.
SlotsEmpty(s) ==
    \A i \in 1..Len(layers[s]) :
        /\ HasAttr(layers[s][i], "past_key_values")
              => layers[s][i].past_key_values = NoneT
        /\ HasAttr(layers[s][i], "hidden_states")
              => layers[s][i].hidden_states = NoneT

\* The local layers whose slot attr_name exists and is not None.
Filled(s, attr_name) ==
    {i \in 1..Len(layers[s]) :
        HasAttr(layers[s][i], attr_name) /\ GetAttr(layers[s][i], attr_name) /= NoneT}

\* C1: once generate has returned, every past_key_values slot and every
\* hidden_states slot of the stage holds None, whether or not the last decode
\* step found the cache populated and however many steps ran.
C1_EmptyAfterGenerateReturns ==
    \A s \in Stages : exit[s] = "returned" => SlotsEmpty(s)

\* C1 witness: generate has returned after at least two decode steps, the
\* last of which found a populated cache on some stage, and some stage has a
\* hidden_states slot.
C1_Witness ==
    /\ \A s \in Stages : exit[s] = "returned"
    /\ calls >= 2
    /\ \E s \in Stages : last.cached[s] >= 2
    /\ \E s \in Stages : \E i \in 1..Len(layers[s]) : layers[s][i].kind = "head"

\* C2: once generate has been left by an exception (a cache-set that is
\* rejected, an eval_batch that fails), every slot of the stage holds None.
C2_EmptyAfterGenerateRaises ==
    \A s \in Stages : exit[s] \in {"rejected", "failed"} => SlotsEmpty(s)

\* C3: a forward call that finds the cache populated (the gathered
\* past_key_values is a list) hands the engine the last column of input_ids
\* alone; one that finds no cache hands over input_ids unchanged.
C3_ForwardsLastTokenWhenCached ==
    calls > 0 =>
        \A s \in Stages :
            IF last.cached[s] >= 2
            THEN last.fwd[s] = <<last.input[Len(last.input)]>>
            ELSE last.fwd[s] = last.input

\* C3 witness: a later call carrying more than one token found the cache
\* populated and forwarded a tensor of length 1.
C3_Witness ==
    /\ calls >= 2
    /\ \E s \in Stages :
          /\ last.cached[s] >= 2
          /\ Len(last.input) >= 2
          /\ Len(last.fwd[s]) = 1

\* A step that is one forward call.
ForwardStep == calls' = calls + 1

\* C4 as stated: the coordinator starts in NoCache; a stage on which at
\* least one layer holds a non-None past_key_values is in CachePopulated, so
\* that the next forward call forwards the last column alone; after the clear
\* that ends generate it is in NoCache again.
C4_PopulatedByAnyLayer ==
    /\ (calls = 0 => \A s \in Stages : Filled(s, "past_key_values") = {})
    /\ [][ForwardStep =>
            \A s \in Stages :
                last'.fwd[s] =
                    IF Cardinality(Filled(s, "past_key_values")) >= 1
                    THEN <<last'.input[Len(last'.input)]>>
                    ELSE last'.input]_vars
    /\ [](\A s \in Stages :
            exit[s] = "returned" => Filled(s, "past_key_values") = {})

\* C4 amended: as C4, with CachePopulated reached when at least two layers of
\* the stage hold a non-None past_key_values.
C4_PopulatedByTwoLayers ==
    /\ (calls = 0 => \A s \in Stages : Filled(s, "past_key_values") = {})
    /\ [][ForwardStep =>
            \A s \in Stages :
                last'.fwd[s] =
                    IF Cardinality(Filled(s, "past_key_values")) >= 2
                    THEN <<last'.input[Len(last'.input)]>>
                    ELSE last'.input]_vars
    /\ [](\A s \in Stages :
            exit[s] = "returned" => Filled(s, "past_key_values") = {})

\* C4 witness: a forward pass has left two filled slots on a stage and the
\* next call, of more than one token, was cut to its last column there.
C4_Witness ==
    /\ calls >= 2
    /\ \E s \in Stages :
          /\ last.cached[s] >= 2
          /\ Len(last.input) >= 2
          /\ last.fwd[s] = <<last.input[Len(last.input)]>>
          /\ Cardinality(Filled(s, "past_key_values")) >= 2

\* C5 as stated: the first forward call never resets the communication
\* buffers, and a second call whose input_ids differ in sequence length from
\* the first's resets them exactly once, whatever the cache state.
C5_ResetWhenInputLengthDiffers ==
    [][/\ (calls = 0 /\ ForwardStep) => \A s \in Stages : resets'[s] = 0
       /\ (calls = 1 /\ ForwardStep /\ Len(last.input) /= Len(last'.input))
             => \A s \in Stages : resets'[s] = 1 /\ last'.reset[s]]_vars

\* C5 amended: the first forward call never resets the communication
\* buffers, and the second call resets them, exactly once, exactly when the
\* tensor it hands to the engine differs in shape from the one the first call
\* handed over.
C5_ResetWhenForwardedShapeDiffers ==
    [][/\ (calls = 0 /\ ForwardStep) => \A s \in Stages : resets'[s] = 0
       /\ (calls = 1 /\ ForwardStep)
             => \A s \in Stages :
                   IF Shape(last.fwd[s]) /= Shape(last'.fwd[s])
                   THEN resets'[s] = 1 /\ last'.reset[s]
                   ELSE resets'[s] = 0 /\ ~last'.reset[s]]_vars

\* C5 witness: two forward calls, the second with another forwarded shape,
\* and one reset, made by the second.
C5_Witness ==
    /\ calls = 2
    /\ \E s \in Stages :
          /\ resets[s] = 1
          /\ last.reset[s]
          /\ communicate_buffer_shape[s] = Shape(last.fwd[s])

\* The local layers that have the attribute past_key_values.
CacheBearing(s) ==
    {i \in 1..Len(layers[s]) : HasAttr(layers[s][i], "past_key_values")}

\* The k-th smallest member of a set of layer indices.
Nth(idx, k) == CHOOSE i \in idx : Cardinality({j \in idx : j < i}) = k - 1

\* C6: a cache-set from a caller's list gives entry i to the i-th
\* cache-bearing layer when the list is as long as there are cache-bearing
\* layers, and is rejected when the list is shorter or longer.
C6_SetRejectsAnyLengthMismatch ==
    [][(AllAt("prepare") /\ pc' /= pc) =>
          \A s \in Stages :
              ~model_kwargs[s].isNone =>
                  IF Len(model_kwargs[s].items) = Cardinality(CacheBearing(s))
                  THEN /\ exit'[s] /= "rejected"
                       /\ \A k \in 1..Cardinality(CacheBearing(s)) :
                             layers'[s][Nth(CacheBearing(s), k)].past_key_values
                                = model_kwargs[s].items[k]
                  ELSE exit'[s] = "rejected"]_vars

\* C7: after a generate call whose cache list was rejected, no layer of the
\* stage holds a past_key_values entry.
C7_NoEntryLeftAfterRejection ==
    \A s \in Stages : exit[s] = "rejected" => Filled(s, "past_key_values") = {}

\* What gathering attr_name on stage s is to return.
GatherContract(s, attr_name, res) ==
    LET idx == Filled(s, attr_name)
        n == Cardinality(idx)
    IN IF n < 2 THEN res = NoneList
       ELSE /\ ~res.isNone
            /\ Len(res.items) = n
            /\ \A k \in 1..n :
                  res.items[k] = GetAttr(layers[s][Nth(idx, k)], attr_name)

\* C8: what forward returns as past_key_values (and as hidden_states) is the
\* list of the non-None slots of the local layers in layer order, and None
\* when fewer than two slots are non-None.
C8_GatherInLayerOrderOrNone ==
    \A s \in Stages :
        outputs[s].returned =>
            /\ GatherContract(s, "past_key_values", outputs[s].past_key_values)
            /\ GatherContract(s, "hidden_states", outputs[s].hidden_states)

\* C8 witness: a forward call returned a list of two or more caches on one
\* stage, and None for the hidden states of a stage with one filled slot.
C8_Witness ==
    /\ \E s \in Stages :
          /\ outputs[s].returned
          /\ Len(outputs[s].past_key_values.items) >= 2
    /\ \E s \in Stages :
          /\ outputs[s].returned
          /\ Cardinality(Filled(s, "hidden_states")) = 1
          /\ outputs[s].hidden_states.isNone

\* C9: in every forward call all stages take the same truncation decision,
\* hand tensors of the same shape to the engine and take the same reset
\* decision.
C9_SameDecisionsOnEveryStage ==
    calls > 0 =>
        \A s, t \in Stages :
            /\ (last.cached[s] >= 2) = (last.cached[t] >= 2)
            /\ Shape(last.fwd[s]) = Shape(last.fwd[t])
            /\ last.reset[s] = last.reset[t]

\* C10: when WORLD_SIZE is a multiple of pp_size * tp_size, the sizes the
\* topology is built from multiply to WORLD_SIZE, whatever dp_size was asked.
C10_ResolvedMeshCoversWorld ==
    (mesh.pc = "resolved" /\ mesh.world_size % (mesh.pp_size * mesh.tp_size) = 0)
        => mesh.pp_size * mesh.dp_size * mesh.tp_size = mesh.world_size

\* C10 witness: a mesh whose requested sizes did not multiply to WORLD_SIZE
\* has been resolved, with a tensor size and a data size above one.
C10_Witness ==
    /\ mesh.pc = "resolved"
    /\ mesh.warned
    /\ mesh.world_size % (mesh.pp_size * mesh.tp_size) = 0
    /\ mesh.tp_size > 1
    /\ mesh.dp_size > 1

\* The product of the dims the constructor was given
RequestedProduct == mesh.dims[1] * mesh.dims[2] * mesh.dims[3]

\* C11: once the mesh is resolved, pp_size and tp_size are the requested
\* ones; if the requested dims did not multiply to WORLD_SIZE, dp_size is
\* WORLD_SIZE divided by pp_size * tp_size and a warning was emitted,
\* otherwise dp_size is the requested one and there was no warning; the
\* resolution itself raises nothing, and the grid is refused only when
\* WORLD_SIZE is no multiple of pp_size * tp_size.
C11_MismatchRecomputesDataSize ==
    mesh.pc /= "requested" =>
        /\ mesh.pp_size = mesh.dims[1]
        /\ mesh.tp_size = mesh.dims[3]
        /\ IF mesh.world_size /= RequestedProduct
           THEN /\ mesh.dp_size
                       = mesh.world_size \div (mesh.pp_size * mesh.tp_size)
                /\ mesh.warned
           ELSE /\ mesh.dp_size = mesh.dims[2]
                /\ ~mesh.warned
        /\ (mesh.pc = "resolved" => mesh.error = "none")
        /\ (mesh.error = "Invalid Grid"
              => mesh.world_size % (mesh.pp_size * mesh.tp_size) /= 0)

\* C11 witness: pipeline 3, tensor 2, data 1 requested in a world of 12:
\* the data size became 2, a warning was emitted and the grid was built.
C11_Witness ==
    /\ mesh.pc = "grid"
    /\ mesh.dims = <<3, 1, 2>>
    /\ mesh.world_size = 12
    /\ mesh.dp_size = 2
    /\ mesh.warned

\* The resolved mesh is degenerate: WORLD_SIZE is no exact multiple of
\* pp_size * tp_size, or a resolved size is below one.
Degenerate ==
    \/ mesh.world_size % (mesh.pp_size * mesh.tp_size) /= 0
    \/ mesh.pp_size < 1
    \/ mesh.dp_size < 1
    \/ mesh.tp_size < 1

\* C12: a degenerate resolved mesh gets no further than the grid's
\* assertion: the construction is either still to build the grid or has
\* failed with "Invalid Grid", and no grid, partition, local layer or
\* published value exists.
C12_DegenerateMeshNeverBuilt ==
    (mesh.pc /= "requested" /\ Degenerate) =>
        /\ mesh.pc \in {"resolved", "failed"}
        /\ (mesh.pc = "failed" => mesh.error = "Invalid Grid")
        /\ mesh.grid = <<>>
        /\ mesh.stage_id = <<>>
        /\ mesh.parts = <<>>
        /\ mesh.local = <<>>
        /\ mesh.environ = <<>>

\* C12 witness: pp_size * tp_size exceeded WORLD_SIZE, the data size was
\* recomputed to 0 and the construction failed.
C12_Witness ==
    /\ mesh.pc = "failed"
    /\ mesh.pp_size * mesh.tp_size > mesh.world_size
    /\ mesh.dp_size = 0

\* The partitioner has run: it produced boundaries or failed.
PartitionAttempted ==
    mesh.pc \in {"built", "published"} \/ mesh.error = "partition"

\* The ranks of a stage
RanksOfStage(s) == {r \in Ranks(mesh.world_size) : mesh.stage_id[r] = s}

\* The layer indices inside the local bounds of rank r
LocalRange(r) == {i \in 0..(Len(mesh.layer_specs) - 1) :
                     mesh.local[r].start <= i /\ i < mesh.local[r].stop}

\* C13: once the partitioner has produced a Partition, the local ranges
\* [start, stop) of the stages start at 0, each begins where the one of the
\* stage before ends, the last ends at the number of layer specs, and every
\* layer index lies in the range of exactly one stage; layers of one cost
\* whose number is a multiple of the stages are split evenly.
C13_PartitionCoversLayersInOrder ==
    mesh.pc \in {"built", "published"} =>
        /\ mesh.num_layers = Len(mesh.layer_specs)
        /\ mesh.num_layers >= mesh.num_stages
        /\ \A r \in Ranks(mesh.world_size) :
              /\ mesh.local[r].start <= mesh.local[r].stop
              /\ mesh.stage_id[r] = 0 => mesh.local[r].start = 0
              /\ mesh.stage_id[r] = mesh.num_stages - 1
                    => mesh.local[r].stop = Len(mesh.layer_specs)
              /\ \A q \in Ranks(mesh.world_size) :
                    /\ mesh.stage_id[q] = mesh.stage_id[r]
                          => mesh.local[q] = mesh.local[r]
                    /\ mesh.stage_id[q] = mesh.stage_id[r] + 1
                          => mesh.local[q].start = mesh.local[r].stop
        /\ \A i \in 0..(Len(mesh.layer_specs) - 1) :
              \E s \in 0..(mesh.num_stages - 1) :
                  /\ \A r \in RanksOfStage(s) : i \in LocalRange(r)
                  /\ \A t \in 0..(mesh.num_stages - 1) : \A r \in RanksOfStage(t) :
                        i \in LocalRange(r) => t = s
        /\ ((\A i, j \in 1..Len(mesh.layer_specs) :
                 mesh.layer_specs[i] = mesh.layer_specs[j])
            /\ Len(mesh.layer_specs) % mesh.num_stages = 0)
              => \A r \in Ranks(mesh.world_size) :
                    mesh.local[r].stop - mesh.local[r].start
                        = Len(mesh.layer_specs) \div mesh.num_stages

\* C13 witness: three layers whose costs differ were split over two stages
\* with the boundary after the first layer.
C13_Witness ==
    /\ mesh.pc = "built"
    /\ mesh.num_stages = 2
    /\ mesh.num_layers = 3
    /\ mesh.parts[1] = 1
    /\ mesh.layer_specs[1] > mesh.layer_specs[2]

\* C14: when the constructor is given fewer layer specs than stages, the
\* partitioner fails: the construction has failed, there are no boundaries,
\* no local layers, and nothing is published.
C14_TooFewLayersFailPartitioning ==
    (PartitionAttempted /\ Len(mesh.layer_specs) < mesh.num_stages) =>
        /\ mesh.pc = "failed"
        /\ mesh.error = "partition"
        /\ mesh.parts = <<>>
        /\ mesh.local = <<>>
        /\ mesh.environ = <<>>

\* C14 witness: two layer specs were given to a pipeline of three stages.
C14_Witness ==
    /\ mesh.pc = "failed"
    /\ mesh.error = "partition"
    /\ Len(mesh.layer_specs) = 2
    /\ mesh.num_stages = 3

\* The number a string of decimal digits reads as
DigitValue(c) == CHOOSE d \in 0..9 : DigitChars[d + 1] = c

RECURSIVE ParseInt(_)
ParseInt(cs) ==
    IF cs = <<>> THEN 0
    ELSE ParseInt(SubSeq(cs, 1, Len(cs) - 1)) * 10 + DigitValue(cs[Len(cs)])

\* The items of a comma-separated string, blanks dropped
RECURSIVE SplitItems(_)
SplitItems(cs) ==
    IF \A i \in 1..Len(cs) : cs[i] /= ","
    THEN <<SelectSeq(cs, LAMBDA c : c /= " ")>>
    ELSE LET i == CHOOSE k \in 1..Len(cs) :
                      cs[k] = "," /\ \A j \in 1..(k - 1) : cs[j] /= ","
         IN <<SelectSeq(SubSeq(cs, 1, i - 1), LAMBDA c : c /= " ")>>
                \o SplitItems(SubSeq(cs, i + 1, Len(cs)))

\* The list of numbers a JSON array of numbers reads as
JsonLoads(cs) ==
    LET items == SplitItems(SubSeq(cs, 2, Len(cs) - 1))
    IN [i \in 1..Len(items) |-> ParseInt(items[i])]

\* C16: once the constructor has published, every rank of the world holds
\* the three values; COLLIE_PP_RANK reads as the pipe coordinate of the rank
\* in the resolved mesh, COLLIE_DP_RANK as its data coordinate, and
\* COLLIE_PP_PARTS reads as the partition boundaries and is the same string
\* on every rank.
C16_PublishedStateNamesTheCoordinates ==
    mesh.pc = "published" =>
        /\ DOMAIN mesh.environ = Ranks(mesh.world_size)
        /\ \A r \in Ranks(mesh.world_size) :
              LET coord == get_coord(r, mesh.pp_size, mesh.dp_size, mesh.tp_size)
              IN /\ ParseInt(mesh.environ[r].COLLIE_PP_RANK) = coord.pipe
                 /\ ParseInt(mesh.environ[r].COLLIE_DP_RANK) = coord.data
                 /\ coord.pipe \in 0..(mesh.pp_size - 1)
                 /\ coord.data \in 0..(mesh.dp_size - 1)
                 /\ JsonLoads(mesh.environ[r].COLLIE_PP_PARTS)
                       = [i \in 1..(mesh.num_stages + 1) |-> mesh.parts[i - 1]]
                 /\ \A q \in Ranks(mesh.world_size) :
                       mesh.environ[q].COLLIE_PP_PARTS
                           = mesh.environ[r].COLLIE_PP_PARTS

\* C16 witness: in a mesh whose data size was corrected, a rank published
\* stage 1 and replica 1 next to boundaries of more than one stage.
C16_Witness ==
    /\ mesh.pc = "published"
    /\ mesh.warned
    /\ mesh.num_stages > 1
    /\ \E r \in Ranks(mesh.world_size) :
          /\ mesh.environ[r].COLLIE_PP_RANK = <<"1">>
          /\ mesh.environ[r].COLLIE_DP_RANK = <<"1">>
          /\ Len(mesh.environ[r].COLLIE_PP_PARTS) > 5

\* C15: between two decode steps of one generate invocation the
\* coordinator leaves every layer's past_key_values and hidden_states slot
\* as the layer's forward pass wrote it: the preparation of a further decode
\* step neither empties nor overwrites a slot.
C15_NoSlotTouchedBetweenDecodeSteps ==
    [][(AllAt("next_step") /\ pc' /= pc) =>
          \A s \in Stages : \A i \in 1..Len(layers[s]) :
              /\ GetAttr(layers'[s][i], "past_key_values")
                    = GetAttr(layers[s][i], "past_key_values")
              /\ GetAttr(layers'[s][i], "hidden_states")
                    = GetAttr(layers[s][i], "hidden_states")]_vars

\* C19: communicate_buffer_shape is None exactly as long as no forward call
\* was made; a forward call leaves in it the shape of the tensor it handed to
\* the engine, and resets the communication buffers exactly when an earlier
\* call handed over a tensor of another shape, so that the resets count the
\* consecutive pairs of calls whose forwarded shapes differ; no other step
\* (generate's loop and return, the cache clearing) changes the stored shape
\* or resets the buffers.
C19_StoredShapeFollowsForwardedShape ==
    /\ [](\A s \in Stages :
            /\ (calls = 0) <=> (communicate_buffer_shape[s] = <<>>)
            /\ calls > 0 => communicate_buffer_shape[s] = Shape(last.fwd[s])
            /\ calls = 0 => resets[s] = 0)
    /\ [][\A s \in Stages :
            IF ForwardStep
            THEN /\ communicate_buffer_shape'[s] = Shape(last'.fwd[s])
                 /\ resets'[s] = resets[s]
                       + (IF calls > 0 /\ Shape(last'.fwd[s]) /= Shape(last.fwd[s])
                          THEN 1 ELSE 0)
            ELSE /\ communicate_buffer_shape'[s] = communicate_buffer_shape[s]
                 /\ resets'[s] = resets[s]]_vars

\* C19 witness: three forward calls were made, the second handing over
\* another shape than the first and the third the same shape as the second,
\* so the buffers were reset once.
C19_Witness ==
    /\ calls = 3
    /\ \A s \in Stages :
          /\ resets[s] = 1
          /\ communicate_buffer_shape[s] = Shape(last.fwd[s])
          /\ ~last.reset[s]

\* The local layers that have the attribute hidden_states.
HiddenBearing(s) ==
    {i \in 1..Len(layers[s]) : HasAttr(layers[s][i], "hidden_states")}

\* C18: on a stage with n >= 2 layers that have the attribute, a set helper
\* given a list of n tensors does not raise, and the gather that follows
\* returns that list, in its order, for past_key_values as for
\* hidden_states; a gather changes no layer, and a gather that follows a
\* gather returns what the first returned.
C18_GatherReturnsWhatWasSet ==
    [][\A s \in Stages :
          /\ (/\ pc'[s] = "set_past_key_values"
              /\ Cardinality(CacheBearing(s)) >= 2
              /\ Len(model_kwargs'[s].items) = Cardinality(CacheBearing(s)))
                => exit'[s] = "none"
          /\ (/\ pc'[s] = "set_hidden_states"
              /\ Cardinality(HiddenBearing(s)) >= 2
              /\ Len(model_kwargs'[s].items) = Cardinality(HiddenBearing(s)))
                => exit'[s] = "none"
          /\ (/\ pc[s] = "set_past_key_values"
              /\ pc'[s] = "gathered"
              /\ Cardinality(CacheBearing(s)) >= 2
              /\ Len(model_kwargs[s].items) = Cardinality(CacheBearing(s)))
                => outputs'[s].past_key_values = model_kwargs[s]
          /\ (/\ pc[s] = "set_hidden_states"
              /\ pc'[s] = "gathered"
              /\ Cardinality(HiddenBearing(s)) >= 2
              /\ Len(model_kwargs[s].items) = Cardinality(HiddenBearing(s)))
                => outputs'[s].hidden_states = model_kwargs[s]
          /\ pc'[s] = "gathered" => layers'[s] = layers[s]
          /\ (pc[s] = "gathered" /\ pc'[s] = "gathered")
                => outputs'[s] = outputs[s]]_vars

\* C18 witness: a list of two tensors, the second-numbered first, was set on
\* a stage with two cache-bearing layers and gathered back.
C18_Witness ==
    \E s \in Stages :
        /\ pc[s] = "gathered"
        /\ Cardinality(CacheBearing(s)) = 2
        /\ outputs[s].past_key_values = SomeList(<<Tensor(0, 2), Tensor(0, 1)>>)
        /\ model_kwargs[s] = outputs[s].past_key_values

\* The concatenation of the contents of a list of segments
RECURSIVE Concat(_)
Concat(segments) ==
    IF segments = <<>> THEN <<>>
    ELSE Head(segments).content \o Concat(Tail(segments))

\* The rendering the docstring of prepare_chatml_messages gives
RECURSIVE Rendered(_)
Rendered(ms) ==
    IF ms = <<>> THEN <<>>
    ELSE <<"<|im_start|>", Head(ms).role, "\n">> \o Head(ms).content
             \o <<"<|im_end|>", "\n">> \o Rendered(Tail(ms))

\* C17: the contents prepare_chatml_messages returns concatenate to the
\* bos token, each message as <|im_start|> role \n content <|im_end|> \n in
\* order, and <|im_start|>assistant\n exactly when a generation prompt is
\* asked for; the segments with require_loss are, in order, the contents of
\* the assistant messages each followed by <|im_end|>.
C17_ChatmlRendering ==
    conv.pc = "prepared" =>
        LET ms == conv.conversation.history
            loss == SelectSeq(conv.prepared_messages,
                              LAMBDA m : m.require_loss)
            assistant == SelectSeq(ms, LAMBDA m : m.role = "assistant")
        IN /\ Concat(conv.prepared_messages)
                 = special_tokens_map.bos_token \o Rendered(ms)
                     \o (IF conv.add_generation_prompt
                         THEN <<"<|im_start|>", "assistant", "\n">>
                         ELSE <<>>)
           /\ Len(loss) = Len(assistant)
           /\ \A k \in 1..Len(loss) :
                 loss[k].content = assistant[k].content \o <<"<|im_end|>">>

\* C17 witness: a user and an assistant message with content were prepared
\* with a generation prompt.
C17_Witness ==
    /\ conv.pc = "prepared"
    /\ conv.add_generation_prompt
    /\ Len(conv.conversation.history) = 2
    /\ conv.conversation.history[1] = [role |-> "user", content |-> <<"a">>]
    /\ conv.conversation.history[2] = [role |-> "assistant", content |-> <<"a">>]
    /\ Len(conv.prepared_messages) = 6

\* The number of ids the first k segments are tokenized to
RECURSIVE Offset(_, _)
Offset(prepared, k) ==
    IF k = 0 THEN 0
    ELSE Offset(prepared, k - 1) + Len(Tokenize(prepared[k].content).input_ids)

\* C20: when tokenize_conversation returns, input_ids, labels and
\* attention_mask are equally long; the ids of segment k stand, in the
\* tokenizer's order, behind those of the segments before it, and the label
\* at each of its positions is the id when the segment requires loss and
\* -100 when it does not.  When no template function is passed and the
\* tokenizer's type has no preset template, the call raises and returns
\* nothing, and it raises in no other case.
C20_LabelsFollowRequireLoss ==
    /\ conv.pc = "tokenized" =>
          LET prepared == conv.prepared_messages
          IN /\ Len(conv.input_ids) = Offset(prepared, Len(prepared))
             /\ Len(conv.labels) = Len(conv.input_ids)
             /\ Len(conv.attention_mask) = Len(conv.input_ids)
             /\ \A k \in 1..Len(prepared) :
                   LET ids == Tokenize(prepared[k].content).input_ids
                   IN \A j \in 1..Len(ids) :
                         LET i == Offset(prepared, k - 1) + j
                         IN /\ conv.input_ids[i] = ids[j]
                            /\ conv.labels[i] \in {-100, conv.input_ids[i]}
                            /\ (conv.labels[i] = conv.input_ids[i])
                                  <=> prepared[k].require_loss
    /\ conv.pc \in {"tokenized", "raised"} =>
          ((conv.pc = "raised")
              <=> (/\ conv.prepare_template_fn = "None"
                   /\ conv.tokenizer \notin TOKENIZER_PREPARE_TEMPLATE_FN_MAPPING))
    /\ conv.pc = "raised" =>
          /\ conv.input_ids = <<>>
          /\ conv.labels = <<>>
          /\ conv.attention_mask = <<>>

\* C20 witness: a conversation with an assistant message was tokenized with
\* the preset template of its tokenizer; some labels are -100, some are ids.
C20_Witness ==
    /\ conv.pc = "tokenized"
    /\ conv.prepare_template_fn = "None"
    /\ \E i \in 1..Len(conv.labels) : conv.labels[i] = -100
    /\ \E i \in 1..Len(conv.labels) : conv.labels[i] = conv.input_ids[i]
    /\ Len(conv.conversation.history) = 2

====
